---- MODULE Spec2Model ----
(***************************************************************************)
(* The reactive store of the playground (useStore): the virtual file       *)
(* mapping, the active-file and active-config-file slots, the import-map   *)
(* file, serialization to the URL hash, and the asynchronous setFiles.     *)
(***************************************************************************)
EXTENDS Naturals, Sequences, FiniteSets, Bags

VARIABLES
  files,                 \* store.files: ordered mapping, a sequence of File records
  activeFilename,        \* store.activeFilename
  activeConfigFilename,  \* store.activeConfigFilename
  mainFile,              \* store.mainFile
  errors,                \* store.errors
  vueVersion,            \* store.vueVersion
  importMap,             \* store.importMap (the merged map last applied)
  preset,                \* store.preset
  initPc,                \* where init() stands: constructed, awaiting, ready, failed
  viteConfig,            \* store.viteConfig
  jobs,                  \* setFiles calls suspended at an await
  compiles,              \* compileFile promises in flight whose .then writes errors
  url,                   \* the serialized state last written to the location hash
  nops,                  \* number of operations the host has invoked
  last                   \* the operation that produced this state, and the state before it

vars == <<files, activeFilename, activeConfigFilename, mainFile, errors, vueVersion,
          importMap, preset, initPc, viteConfig, jobs, compiles, url, nops, last>>

----------------------------------------------------------------------------
(* Bounds of the model *)
MaxOps == 2        \* operations invoked by the host in one behaviour
MaxInitOps == 2    \* operations invoked by the host after init(), in SpecInit

----------------------------------------------------------------------------
(* File names.  A name is its number of leading "src/" prefixes, the stem  *)
(* that follows them and the extension, so that adding and stripping the   *)
(* prefix and testing the extension are computed as the code computes them.*)
Name(src, stem, ext) == [src |-> src, stem |-> stem, ext |-> ext]

(* Reserved filenames and the default files *)
importMapFile == Name(0, "import-map", ".json")
tsconfigFile == Name(0, "tsconfig", ".json")
viteConfigFile == Name(0, "vite.config", ".ts")
tsMacroConfigFile == Name(0, "tsm.config", ".ts")
indexHtmlFile == Name(1, "index", ".html")
welcomeFile == Name(1, "App", ".tsx")

Reserved == {viteConfigFile, tsMacroConfigFile, tsconfigFile, importMapFile}

EmptyName == Name(0, "", "")              \* the empty string
Undefined == Name(0, "<undefined>", "")   \* the JavaScript value undefined, as a key
Null == "<null>"                          \* the JavaScript value null

(* File names the host uses besides the defaults *)
UserB == Name(1, "B", ".tsx")     \* src/B.tsx
UserC == Name(0, "C", ".ts")      \* C.ts, named without the src/ prefix
UserMain == Name(1, "Main", ".ts") \* src/Main.ts
Missing == Name(1, "nope", ".ts") \* src/nope.ts, a name no file ever has

----------------------------------------------------------------------------
(* File contents.  A content is text; JSON-parsable text carries the value  *)
(* it parses to and whether it is the pretty-printed form JSON.stringify    *)
(* (v, undefined, 2) produces or text typed by the user.                    *)
Text(s) == [kind |-> "text", s |-> s, val |-> {}, fmt |-> "typed"]
Json(v, f) == [kind |-> "json", s |-> "", val |-> {v}, fmt |-> f]
EmptyText == Text("")
IsJson(code) == code.kind = "json"
JsonVal(code) == CHOOSE v \in code.val : TRUE

(* A parsed JSON object, as far as the store looks into it: the imports    *)
(* and scopes members (sets of <<key, value>> pairs) and whether it has     *)
(* any other member.                                                        *)
Obj(hi, i, hs, s, o) ==
  [hasImports |-> hi, imports |-> i, hasScopes |-> hs, scopes |-> s, other |-> o]
EmptyObj == Obj(FALSE, {}, FALSE, {}, FALSE)
KeysOf(m) == {p[1] : p \in m}
NoValue == "<undefined>"   \* what obj[k] gives for a key obj lacks
Lookup(m, k) == IF k \in KeysOf(m) THEN (CHOOSE p \in m : p[1] = k)[2] ELSE NoValue

(* const tsconfig = { compilerOptions: ... } *)
tsconfig == Obj(FALSE, {}, FALSE, {}, TRUE)
TsconfigCode == Json(tsconfig, "pretty")

URL_A == "https://A"
URL_A2 == "https://A2"
URL_B == "https://B"
URL_sfc == "https://sfc.vuejs.org/vue.js"
URL_play == "https://play.vuejs.org/vue.js"

fixURL(u) == IF u = URL_sfc THEN URL_play ELSE u

----------------------------------------------------------------------------
(* The ordered file mapping: a sequence of entries, each the key and the   *)
(* File object stored under it (filename, code, hidden).                   *)
File(filename, code, hidden) ==
  [key |-> filename, filename |-> filename, code |-> code, hidden |-> hidden]
Keys(fs) == {fs[i].key : i \in 1..Len(fs)}
KeySeq(fs) == [i \in 1..Len(fs) |-> fs[i].key]
Has(fs, n) == n \in Keys(fs)
IndexOf(fs, n) == CHOOSE i \in 1..Len(fs) : fs[i].key = n
Get(fs, n) == fs[IndexOf(fs, n)]
(* files[n] = file: an existing key keeps its place, a new key goes last *)
Put(fs, n, file) ==
  IF Has(fs, n)
  THEN [fs EXCEPT ![IndexOf(fs, n)] = [file EXCEPT !.key = n]]
  ELSE Append(fs, [file EXCEPT !.key = n])
(* delete files[n] *)
Del(fs, n) == SelectSeq(fs, LAMBDA f : f.key # n)
(* files[n].code = code *)
SetCode(fs, n, code) == [fs EXCEPT ![IndexOf(fs, n)].code = code]

addSrcPrefix(file) ==
  IF file \in Reserved \/ file.src > 0 THEN file ELSE [file EXCEPT !.src = 1]

(* file.replace(/^src\//, '') *)
stripSrcPrefix(file) ==
  IF file.src > 0 THEN [file EXCEPT !.src = file.src - 1] ELSE file

setFile(fs, filename, content, hidden) ==
  Put(fs, addSrcPrefix(filename), File(addSrcPrefix(filename), content, hidden))

(* filename.endsWith('.tsx') *)
EndsWithTsx(n) == n.ext = ".tsx"

----------------------------------------------------------------------------
(* The template catalog (presets) and the built-in import map *)
Presets == {"vue-jsx", "react"}
DefaultPreset == "vue-jsx"
Template(p) ==
  [indexHtml |-> Text(IF p = "react" THEN "react/index.html" ELSE "vue-jsx/index.html"),
   welcome |-> Text(IF p = "react" THEN "react/App.tsx" ELSE "vue-jsx/App.tsx"),
   new |-> Text(IF p = "react" THEN "react/new.tsx" ELSE "vue-jsx/new.tsx"),
   viteConfig |-> Text(IF p = "react" THEN "react/vite.config.ts" ELSE "vue-jsx/vite.config.ts")]
tsMacroConfigCode == Text("export default { plugins: [] }")

Versions == {Null, "3.4"}
(* useVueImportMap: the built-in map is computed from the selected version *)
BuiltinFor(version) ==
  Obj(TRUE, {<<"vue", IF version = Null THEN URL_A ELSE URL_A2>>}, FALSE, {}, FALSE)

(* { ...a, ...b } on the members of two objects *)
Spread(a, b) == b \cup {p \in a : p[1] \notin KeysOf(b)}
mergeImportMap(a, b) ==
  Obj(TRUE, Spread(a.imports, b.imports), TRUE, Spread(a.scopes, b.scopes), FALSE)

----------------------------------------------------------------------------
(* The store as a record, for the operations that are computed in one go.  *)
(* Each operation below maps a store to the store it leaves.               *)
Store(f, af, acf, mf, errs, ver, im, pr) ==
  [files |-> f, activeFilename |-> af, activeConfigFilename |-> acf, mainFile |-> mf,
   errors |-> errs, vueVersion |-> ver, importMap |-> im, preset |-> pr]

Diag(kind, a, b) == [kind |-> kind, a |-> a, b |-> b]
SyntaxErrorIn(n) == Diag("Syntax error in", n, EmptyName)
NotFound(old) == Diag("Could not rename, file not found", old, EmptyName)
CannotRename(old, new) == Diag("Cannot rename", old, new)
CompileError(n) == Diag("compile error", n, EmptyName)

(* files[importMapFile]?.code || '{}' parses *)
ImportMapParses(fs) ==
  ~Has(fs, importMapFile)
    \/ Get(fs, importMapFile).code = EmptyText
    \/ IsJson(Get(fs, importMapFile).code)

(* getImportMap: the value returned, and the store it leaves *)
getImportMapRet(st) ==
  IF ~ImportMapParses(st.files) THEN EmptyObj
  ELSE IF Has(st.files, importMapFile) /\ IsJson(Get(st.files, importMapFile).code)
       THEN JsonVal(Get(st.files, importMapFile).code)
       ELSE EmptyObj
(* getImportMap swallowing the parse error, as getTsConfig does *)
getImportMapSt_Silent(st) == st

getImportMapSt(st) ==
  IF ImportMapParses(st.files) THEN st
  ELSE [st EXCEPT !.errors = <<SyntaxErrorIn(importMapFile)>>]

(* the loop of setImportMap over map.imports, which rewrites the map in place *)
FixImports(map) == [map EXCEPT !.imports = {<<p[1], fixURL(p[2])>> : p \in @}]

setImportMapFiles(fs, map) ==
  IF Has(fs, importMapFile)
  THEN SetCode(fs, importMapFile, Json(FixImports(map), "pretty"))
  ELSE Put(fs, importMapFile, File(importMapFile, Json(FixImports(map), "pretty"), FALSE))

applyBuiltinImportMap(st) ==
  LET merged == mergeImportMap(BuiltinFor(st.vueVersion), getImportMapRet(st))
      st1 == getImportMapSt(st)
  IN [st1 EXCEPT !.importMap = FixImports(merged),
                 !.files = setImportMapFiles(st1.files, merged)]

setDefaultFile(st) ==
  LET t == Template(st.preset)
      f1 == setFile(st.files, indexHtmlFile, t.indexHtml, TRUE)
      f2 == setFile(f1, welcomeFile, t.welcome, FALSE)
      f3 == setFile(f2, viteConfigFile, t.viteConfig, FALSE)
      f4 == setFile(f3, tsMacroConfigFile, tsMacroConfigCode, FALSE)
  IN [st EXCEPT !.files = f4]

----------------------------------------------------------------------------
(* Serialization.  The serialized state is '#' + utoa(JSON.stringify(...)): *)
(* whether it starts with '#', whether atou and JSON.parse accept it, and   *)
(* the object it encodes: the exported entries in key order (a hidden       *)
(* member that is undefined is not written) and the _version member.        *)
Exported(name, code, hasHidden, hidden) ==
  [name |-> name, code |-> code, hasHidden |-> hasHidden, hidden |-> hidden]
ExpKeys(ex) == {ex[i].name : i \in 1..Len(ex)}
ExpIndex(ex, n) == CHOOSE i \in 1..Len(ex) : ex[i].name = n
ExpPut(ex, e) ==
  IF e.name \in ExpKeys(ex) THEN [ex EXCEPT ![ExpIndex(ex, e.name)] = e] ELSE Append(ex, e)

RECURSIVE getFilesFrom(_, _)
getFilesFrom(fs, ex) ==
  IF fs = <<>> THEN ex
  ELSE getFilesFrom(Tail(fs),
         ExpPut(ex, Exported(stripSrcPrefix(Head(fs).key), Head(fs).code, TRUE, Head(fs).hidden)))
getFiles(fs) == getFilesFrom(fs, <<>>)

Encoded(obj) == [hash |-> TRUE, ok |-> TRUE, json |-> {obj}]
Garbage == [hash |-> TRUE, ok |-> FALSE, json |-> {}]
Decoded(str) == CHOOSE o \in str.json : TRUE

(* serialize dropping every specifier the built-in map knows, whatever its value *)
StripBuiltin_ByKey(parsed, builtin) ==
  LET imports1 == {p \in parsed.imports : p[1] \notin KeysOf(builtin.imports)}
      keepImports == parsed.hasImports /\ imports1 # {}
      keepScopes == parsed.hasScopes /\ parsed.scopes # {}
  IN Obj(keepImports, IF keepImports THEN imports1 ELSE {},
         keepScopes, IF keepScopes THEN parsed.scopes ELSE {}, parsed.other)

(* what serialize leaves of the parsed import map *)
StripBuiltin(parsed, builtin) ==
  LET imports1 == {p \in parsed.imports : Lookup(builtin.imports, p[1]) # p[2]}
      keepImports == parsed.hasImports /\ imports1 # {}
      keepScopes == parsed.hasScopes /\ parsed.scopes # {}
  IN Obj(keepImports, IF keepImports THEN imports1 ELSE {},
         keepScopes, IF keepScopes THEN parsed.scopes ELSE {}, parsed.other)
ObjHasKeys(o) == o.hasImports \/ o.hasScopes \/ o.other

(* serialize throws when JSON.parse(importMap.code) does *)
serializeThrows(st) ==
  /\ importMapFile \in ExpKeys(getFiles(st.files))
  /\ ~IsJson(getFiles(st.files)[ExpIndex(getFiles(st.files), importMapFile)].code)

serialize(st) ==
  LET ex == getFiles(st.files)
      i == ExpIndex(ex, importMapFile)
      parsed == StripBuiltin(JsonVal(ex[i].code), BuiltinFor(st.vueVersion))
      ex1 == IF importMapFile \notin ExpKeys(ex) THEN ex
             ELSE IF ObjHasKeys(parsed)
                  THEN [ex EXCEPT ![i] = Exported(importMapFile, Json(parsed, "pretty"), FALSE, FALSE)]
                  ELSE SelectSeq(ex, LAMBDA e : e.name # importMapFile)
  IN Encoded([entries |-> ex1, version |-> st.vueVersion])

RECURSIVE restoreFiles(_, _)
restoreFiles(fs, ex) ==
  IF ex = <<>> THEN fs
  ELSE restoreFiles(setFile(fs, Head(ex).name, Head(ex).code,
                            Head(ex).hasHidden /\ Head(ex).hidden),
                    Tail(ex))

(* deserialize: the catch branch alerts and falls back to setDefaultFile *)
deserializeFails(str) == ~str.ok
deserialize(st, str) ==
  IF deserializeFails(str) THEN setDefaultFile(st)
  ELSE [st EXCEPT !.files = restoreFiles(st.files, Decoded(str).entries),
                  !.vueVersion = IF Decoded(str).version # Null
                                 THEN Decoded(str).version ELSE @]

(* Object.keys(files).find(i => i.endsWith('.tsx')) *)
RECURSIVE FirstTsx(_)
FirstTsx(fs) ==
  IF fs = <<>> THEN Undefined
  ELSE IF EndsWithTsx(Head(fs).key) THEN Head(fs).key ELSE FirstTsx(Tail(fs))

(* useStore({ preset }, serializedState): the store after construction *)
useStore(pr, hasState, serializedState) ==
  LET st0 == Store(<<>>, Undefined, viteConfigFile, welcomeFile, <<>>, Null, EmptyObj, pr)
      st1 == IF hasState THEN deserialize(st0, serializedState) ELSE setDefaultFile(st0)
      mf == IF Has(st1.files, st1.mainFile) THEN st1.mainFile ELSE FirstTsx(st1.files)
      st2 == [st1 EXCEPT !.mainFile = mf, !.activeFilename = mf]
  IN applyBuiltinImportMap(st2)

----------------------------------------------------------------------------
(* The synchronous file operations, on the store record *)
(* setActive without the routing of reserved names *)
setActiveSt_Unrouted(st, filename) == [st EXCEPT !.activeFilename = filename]

setActiveSt(st, filename) ==
  IF filename \in {viteConfigFile, tsMacroConfigFile, tsconfigFile, importMapFile}
  THEN [st EXCEPT !.activeConfigFilename = filename]
  ELSE [st EXCEPT !.activeFilename = filename]

(* the File addFile stores: given a name, new File(name, boilerplate or '') *)
addFileArg(st, isString, name, code, hidden) ==
  IF isString
  THEN File(name, IF EndsWithTsx(name) THEN Template(st.preset).new ELSE EmptyText, FALSE)
  ELSE File(name, code, hidden)

addFileSt(st, file) ==
  LET st1 == [st EXCEPT !.files = Put(st.files, file.filename, file)]
  IN IF ~file.hidden THEN setActiveSt(st1, file.filename) ELSE st1

(* deleteFile without the fallback of the active file to mainFile *)
deleteFileSt_KeepsActive(st, filename, confirmed) ==
  IF ~confirmed THEN st ELSE [st EXCEPT !.files = Del(st.files, filename)]

deleteFileSt(st, filename, confirmed) ==
  IF ~confirmed THEN st
  ELSE [st EXCEPT !.activeFilename = IF @ = filename THEN st.mainFile ELSE @,
                  !.files = Del(st.files, filename)]

(* the loop of renameFile that rebuilds the mapping, file.filename already set *)
RECURSIVE renameLoop(_, _, _, _)
renameLoop(fs, newFiles, oldFilename, newFilename) ==
  IF fs = <<>> THEN newFiles
  ELSE renameLoop(Tail(fs),
         IF Head(fs).key = oldFilename
         THEN Put(newFiles, newFilename, [Head(fs) EXCEPT !.filename = newFilename])
         ELSE Put(newFiles, Head(fs).key, Head(fs)),
         oldFilename, newFilename)

(* renameFile without the check oldFilename === newFilename *)
renameOutcome_SameNameAllowed(st, oldFilename, newFilename) ==
  IF ~Has(st.files, oldFilename) THEN "not found"
  ELSE IF newFilename = EmptyName THEN "cannot rename"
  ELSE IF st.activeFilename = oldFilename THEN "renamed active"
  ELSE "renamed"

renameOutcome(st, oldFilename, newFilename) ==
  IF ~Has(st.files, oldFilename) THEN "not found"
  ELSE IF newFilename = EmptyName \/ oldFilename = newFilename THEN "cannot rename"
  ELSE IF st.activeFilename = oldFilename THEN "renamed active"
  ELSE "renamed"

renameFileSt(st, oldFilename, newFilename) ==
  LET outcome == renameOutcome(st, oldFilename, newFilename)
  IN IF outcome = "not found" THEN [st EXCEPT !.errors = <<NotFound(oldFilename)>>]
     ELSE IF outcome = "cannot rename"
          THEN [st EXCEPT !.errors = <<CannotRename(oldFilename, newFilename)>>]
     ELSE [st EXCEPT !.files = renameLoop(st.files, <<>>, oldFilename, newFilename),
                     !.mainFile = IF @ = oldFilename THEN newFilename ELSE @,
                     !.activeFilename = IF @ = oldFilename THEN newFilename ELSE @]

(* compileFile(store, file): the diagnostics the transform resolves with *)
BadSource == Text("syntax error")
Diagnostics(file) == IF file.code = BadSource THEN <<CompileError(file.filename)>> ELSE <<>>
(* a compile in flight: what it resolves with and what its .then does with it *)
Compile(file, mode) == [errs |-> Diagnostics(file), mode |-> mode]
(* compileFile(store, file).then(...): the promise joins those in flight.  *)
(* A compile that resolves with no diagnostics and whose .then appends     *)
(* them leaves the error list as it is, whenever it settles: only the       *)
(* compiles whose settling can change the error list are kept.              *)
Started(file, mode) ==
  IF mode = "append" /\ Diagnostics(file) = <<>> THEN EmptyBag
  ELSE SetToBag({Compile(file, mode)})

----------------------------------------------------------------------------
(* setFiles: the part before the first await builds the new mapping *)
NewFile(name, code) == [name |-> name, code |-> code]
NewKeys(nf) == {nf[i].name : i \in 1..Len(nf)}
NewCode(nf, n) == nf[CHOOSE i \in 1..Len(nf) : nf[i].name = n].code

RECURSIVE setFilesLoop(_, _)
setFilesLoop(fs, nf) ==
  IF nf = <<>> THEN fs
  ELSE setFilesLoop(setFile(fs, Head(nf).name, Head(nf).code, FALSE), Tail(nf))

setFilesBuild(st, newFiles, mainFileArg, from) ==
  LET mf == addSrcPrefix(mainFileArg)
      absent == mf \notin NewKeys(newFiles) \/ NewCode(newFiles, mf) = EmptyText
      fs0 == IF absent THEN setFile(<<>>, mf, Template(st.preset).welcome, FALSE) ELSE <<>>
  IN [kind |-> "setFiles", files |-> setFilesLoop(fs0, newFiles), mainFile |-> mf,
      errs |-> <<>>, idx |-> 1, preset |-> st.preset, from |-> from, hung |-> FALSE]

(* the files the preset watcher hands to setFiles *)
presetFiles(st) ==
  <<NewFile(indexHtmlFile, Template(st.preset).indexHtml),
    NewFile(welcomeFile, Template(st.preset).welcome),
    NewFile(viteConfigFile, Template(st.preset).viteConfig),
    NewFile(tsMacroConfigFile, tsMacroConfigCode),
    NewFile(tsconfigFile, TsconfigCode)>>

(* setFiles writing the new files into the existing mapping instead of       *)
(* replacing it                                                             *)
setFilesTail_Merges(st, job, errs) ==
  setActiveSt(applyBuiltinImportMap([st EXCEPT !.mainFile = job.mainFile,
                                               !.files = st.files \o
                                                 SelectSeq(job.files,
                                                   LAMBDA f : ~Has(st.files, f.key)),
                                               !.errors = errs]),
              job.mainFile)

(* setFiles after its last await: the assignments to the store *)
setFilesTail(st, job, errs) ==
  setActiveSt(applyBuiltinImportMap([st EXCEPT !.mainFile = job.mainFile,
                                               !.files = job.files,
                                               !.errors = errs]),
              job.mainFile)

----------------------------------------------------------------------------
(* The watchers init installs, run after an operation that changed what     *)
(* they track.                                                              *)
NoFile == File(Undefined, EmptyText, FALSE)
FileOrNone(fs, n) == IF Has(fs, n) THEN Get(fs, n) ELSE NoFile
ActiveView(st) ==
  <<st.activeFilename, st.activeConfigFilename,
    FileOrNone(st.files, st.activeFilename), FileOrNone(st.files, st.activeConfigFilename)>>

(* watch(builtinImportMap, ...): the built-in map is merged over the file's *)
builtinWatcher(st) ==
  LET st1 == getImportMapSt(st)
  IN [st1 EXCEPT !.files =
        setImportMapFiles(st1.files,
                          mergeImportMap(getImportMapRet(st), BuiltinFor(st.vueVersion)))]

(* watchEffect: compiles the active file and the active config file; a     *)
(* compile of a file that does not exist rejects and writes nothing        *)
effectCompiles(st) ==
  (IF Has(st.files, st.activeFilename)
   THEN Started(Get(st.files, st.activeFilename), "replace") ELSE EmptyBag)
  (+)
  (IF Has(st.files, st.activeConfigFilename)
   THEN Started(Get(st.files, st.activeConfigFilename), "replace") ELSE EmptyBag)

(* watch(() => files[viteConfigFile]?.code, ...): starts getViteConfig *)
viteCode(st) == FileOrNone(st.files, viteConfigFile).code
viteJob(st) == [kind |-> "viteConfig", code |-> viteCode(st), hung |-> FALSE]

React(pre, post, replaced) ==
  IF initPc # "ready" THEN [st |-> post, compiles |-> EmptyBag, started |-> <<>>]
  ELSE LET st1 == IF BuiltinFor(pre.vueVersion) # BuiltinFor(post.vueVersion)
                  THEN builtinWatcher(post) ELSE post
       IN [st |-> st1,
           compiles |-> IF replaced \/ ActiveView(pre) # ActiveView(st1)
                        THEN effectCompiles(st1) ELSE EmptyBag,
           started |-> IF viteCode(pre) # viteCode(st1) /\ Has(st1.files, viteConfigFile)
                       THEN <<viteJob(st1)>> ELSE <<>>]

----------------------------------------------------------------------------
(* The state, and how an operation leaves it *)
Cur == Store(files, activeFilename, activeConfigFilename, mainFile, errors, vueVersion,
             importMap, preset)

Commit(st) ==
  /\ files' = st.files
  /\ activeFilename' = st.activeFilename
  /\ activeConfigFilename' = st.activeConfigFilename
  /\ mainFile' = st.mainFile
  /\ errors' = st.errors
  /\ vueVersion' = st.vueVersion
  /\ importMap' = st.importMap
  /\ preset' = st.preset

(* last.pass: the diagnostics appended by the full recompile that the       *)
(* build-config watcher ran, while no operation has changed the store      *)
(* since that pass started                                                  *)
Done(op, arg, threw, ret) ==
  last' = [op |-> op, arg |-> arg, threw |-> threw, ret |-> ret, pre |-> Cur,
           pass |-> IF op = "viteConfigDone" THEN ret
                    ELSE IF op \in {"settle", "setFilesAwait"} THEN last.pass
                    ELSE <<>>]

(* an operation the host invokes: post is the store its handler leaves,     *)
(* spawned the compiles it starts, started the async calls it suspends      *)
Host(op, arg, threw, ret, post, replaced, spawned, started) ==
  LET r == React(Cur, post, replaced)
      newCompiles == spawned (+) r.compiles
      newJobs == started \o r.started
  IN /\ nops < MaxOps
     /\ nops' = nops + 1
     /\ Commit(r.st)
     /\ compiles' = compiles (+) newCompiles
     /\ jobs' = jobs \o newJobs
     /\ Done(op, arg, threw, ret)
     /\ UNCHANGED <<initPc, viteConfig>>

----------------------------------------------------------------------------
(* The inputs the host draws from *)
BadJson == Text("{ bad json")
MapFooOverride == Obj(TRUE, {<<"vue", URL_A>>, <<"foo", URL_B>>}, FALSE, {}, FALSE)
MapAllBuiltin == Obj(TRUE, {<<"vue", URL_A>>}, TRUE, {}, FALSE)
MapScoped == Obj(TRUE, {<<"vue", URL_sfc>>}, TRUE, {<<"https://x/", "s">>}, FALSE)
UserMaps == {MapFooOverride, MapAllBuiltin, MapScoped}

AddInputs ==
  {[isString |-> TRUE, name |-> n, code |-> EmptyText, hidden |-> FALSE] :
     n \in {UserB, UserC, tsconfigFile}}
  \cup {[isString |-> FALSE, name |-> UserB, code |-> Text("object"), hidden |-> h] :
     h \in BOOLEAN}
DeleteInputs == {welcomeFile, indexHtmlFile, UserB, importMapFile, Missing}
RenameOld == {welcomeFile, UserB, Missing}
RenameNew == {EmptyName, welcomeFile, UserMain, tsconfigFile}
ActiveInputs == {welcomeFile, UserB, Missing, importMapFile}
EditInputs ==
  {<<importMapFile, BadJson>>, <<tsconfigFile, BadJson>>, <<welcomeFile, BadSource>>,
   <<viteConfigFile, Text("edited config")>>}
  \cup {<<importMapFile, Json(m, "typed")>> : m \in UserMaps}
SetFilesInputs ==
  {[newFiles |-> <<NewFile(Name(0, "B", ".tsx"), Text("b"))>>, hasMain |-> FALSE,
    mainFile |-> Undefined],
   [newFiles |-> <<NewFile(importMapFile, Json(MapFooOverride, "typed")),
                   NewFile(UserMain, Text("m"))>>, hasMain |-> TRUE,
    mainFile |-> Name(0, "Main", ".ts")]}

----------------------------------------------------------------------------
(* The operations of the store *)
setActive(filename) ==
  /\ Host("setActive", [filename |-> filename], FALSE, FALSE,
          setActiveSt(Cur, filename), FALSE, EmptyBag, <<>>)
  /\ UNCHANGED url

addFile(in) ==
  LET file == addFileArg(Cur, in.isString, in.name, in.code, in.hidden)
  IN /\ Host("addFile", [filename |-> file.filename, hidden |-> file.hidden,
                         isString |-> in.isString], FALSE, FALSE,
             addFileSt(Cur, file), FALSE, EmptyBag, <<>>)
     /\ UNCHANGED url

deleteFile(filename, confirmed) ==
  /\ Host("deleteFile", [filename |-> filename, confirmed |-> confirmed], FALSE, FALSE,
          deleteFileSt(Cur, filename, confirmed), FALSE, EmptyBag, <<>>)
  /\ UNCHANGED url

renameFile(oldFilename, newFilename) ==
  LET outcome == renameOutcome(Cur, oldFilename, newFilename)
      post == renameFileSt(Cur, oldFilename, newFilename)
  IN /\ Host("renameFile", [oldFilename |-> oldFilename, newFilename |-> newFilename],
             FALSE, outcome, post, outcome \in {"renamed", "renamed active"},
             IF outcome = "renamed"
             THEN Started([Get(files, oldFilename) EXCEPT !.filename = newFilename],
                          "replace")
             ELSE EmptyBag,
             <<>>)
     /\ UNCHANGED url

(* the editor or the host assigns file.code *)
edit(filename, code) ==
  /\ Has(files, filename)
  /\ Get(files, filename).code # code
  /\ Host("edit", [filename |-> filename], FALSE, FALSE,
          [Cur EXCEPT !.files = SetCode(files, filename, code)], FALSE, EmptyBag, <<>>)
  /\ UNCHANGED url

getImportMap ==
  /\ Host("getImportMap", [filename |-> importMapFile], FALSE, getImportMapRet(Cur),
          getImportMapSt(Cur), FALSE, EmptyBag, <<>>)
  /\ UNCHANGED url

(* JSON.parse(files[tsconfigFile].code), {} when that throws *)
getTsConfigRet(st) ==
  IF Has(st.files, tsconfigFile) /\ IsJson(Get(st.files, tsconfigFile).code)
  THEN JsonVal(Get(st.files, tsconfigFile).code)
  ELSE EmptyObj

getTsConfig ==
  /\ Host("getTsConfig", [filename |-> tsconfigFile], FALSE, getTsConfigRet(Cur),
          Cur, FALSE, EmptyBag, <<>>)
  /\ UNCHANGED url

(* serialize(); the host keeps the string it returns *)
serializeCall ==
  /\ Host("serialize", [filename |-> importMapFile], serializeThrows(Cur),
          IF serializeThrows(Cur) THEN Garbage ELSE serialize(Cur),
          Cur, FALSE, EmptyBag, <<>>)
  /\ url' = IF serializeThrows(Cur) THEN url ELSE serialize(Cur)

deserializeCall(str) ==
  /\ Host("deserialize", [str |-> str], FALSE, [alerted |-> deserializeFails(str)],
          deserialize(Cur, str), FALSE, EmptyBag, <<>>)
  /\ UNCHANGED url

(* the host selects another framework version *)
setVueVersion(v) ==
  /\ v # vueVersion
  /\ Host("setVueVersion", [version |-> v], FALSE, FALSE,
          [Cur EXCEPT !.vueVersion = v], FALSE, EmptyBag, <<>>)
  /\ UNCHANGED url

(* the preset selector changes; once init has installed the watcher it      *)
(* calls setFiles with the new preset's files                               *)
setPreset(p) ==
  LET post == [Cur EXCEPT !.preset = p]
  IN /\ p # preset
     /\ Host("setPreset", [preset |-> p], FALSE, FALSE, post, FALSE, EmptyBag,
             IF initPc # "constructed"
             THEN <<setFilesBuild(post, presetFiles(post), welcomeFile, "watch(preset)")>>
             ELSE <<>>)
     /\ UNCHANGED url

setFiles(in) ==
  /\ Host("setFiles", [mainFile |-> in.mainFile], FALSE, FALSE, Cur, FALSE, EmptyBag,
          <<setFilesBuild(Cur, in.newFiles,
                          IF in.hasMain THEN in.mainFile ELSE mainFile, "call")>>)
  /\ UNCHANGED url

----------------------------------------------------------------------------
(* The steps of the asynchronous calls *)
RemoveAt(q, i) == [k \in 1..(Len(q) - 1) |-> IF k < i THEN q[k] ELSE q[k + 1]]

RECURSIVE compileAll(_, _)
compileAll(fs, mode) ==
  IF fs = <<>> THEN EmptyBag
  ELSE Started(Head(fs), mode) (+) compileAll(Tail(fs), mode)

(* the diagnostics of every file of the mapping, in key order *)
RECURSIVE AllDiagnostics(_)
AllDiagnostics(fs) ==
  IF fs = <<>> THEN <<>> ELSE Diagnostics(Head(fs)) \o AllDiagnostics(Tail(fs))

(* an await of setFiles' compile loop resumes, and the loop goes on *)
setFilesAwait(i) ==
  /\ i \in 1..Len(jobs)
  /\ jobs[i].kind = "setFiles"
  /\ jobs[i].idx < Len(jobs[i].files)
  /\ ~jobs[i].hung
  /\ jobs' = [jobs EXCEPT ![i].errs = @ \o Diagnostics(jobs[i].files[jobs[i].idx]),
                          ![i].idx = @ + 1]
  /\ Done("setFilesAwait", [preset |-> jobs[i].preset], FALSE, FALSE)
  /\ UNCHANGED <<files, activeFilename, activeConfigFilename, mainFile, errors, vueVersion,
                 importMap, preset, initPc, viteConfig, compiles, url, nops>>

(* the last await of setFiles resumes: the store is replaced *)
setFilesDone(i) ==
  /\ i \in 1..Len(jobs)
  /\ jobs[i].kind = "setFiles"
  /\ jobs[i].idx = Len(jobs[i].files)
  /\ ~jobs[i].hung
  /\ LET job == jobs[i]
         errs == job.errs \o Diagnostics(job.files[job.idx])
         r == React(Cur, setFilesTail(Cur, job, errs), TRUE)
     IN /\ Commit(r.st)
        /\ compiles' = compiles (+) r.compiles
        /\ jobs' = RemoveAt(jobs, i) \o r.started
        /\ Done("setFilesDone", [preset |-> job.preset, from |-> job.from,
                                  files |-> job.files], FALSE, FALSE)
  /\ UNCHANGED <<initPc, viteConfig, url, nops>>

(* getViteConfig: the dynamic import of the build-config module settles *)
Evaluates(code) == code # BadSource

(* the build-config watcher resumes after await getViteConfig() *)
viteConfigDone(i) ==
  /\ i \in 1..Len(jobs)
  /\ jobs[i].kind = "viteConfig"
  /\ ~jobs[i].hung
  /\ jobs' = RemoveAt(jobs, i)
  /\ IF Evaluates(jobs[i].code)
     THEN /\ viteConfig' = {jobs[i].code}
          /\ compiles' = compiles (+) compileAll(files, "append")
     ELSE UNCHANGED <<viteConfig, compiles>>
  /\ Done("viteConfigDone", [code |-> jobs[i].code], ~Evaluates(jobs[i].code),
          IF Evaluates(jobs[i].code) THEN AllDiagnostics(files) ELSE <<>>)
  /\ UNCHANGED <<files, activeFilename, activeConfigFilename, mainFile, errors, vueVersion,
                 importMap, preset, initPc, url, nops>>

(* the .then of a compileFile promise: (errs) => (errors.value = errs), or  *)
(* (errs) => errors.value.push(...errs), keeping every result               *)
Settled_Appends(errs, c) == errs \o c.errs

Settled(errs, c) == IF c.mode = "replace" THEN c.errs ELSE errs \o c.errs

(* a compileFile promise settles and its .then writes the error list *)
settle(c) ==
  /\ BagIn(c, compiles)
  /\ c.mode # "hung"
  /\ compiles' = compiles (-) SetToBag({c})
  /\ errors' = Settled(errors, c)
  /\ Done("settle", [mode |-> c.mode, errs |-> c.errs], FALSE, FALSE)
  /\ UNCHANGED <<files, activeFilename, activeConfigFilename, mainFile, vueVersion,
                 importMap, preset, initPc, viteConfig, jobs, url, nops>>

(* the files init() starts a compile for: the watcher's first run compiles  *)
(* the active file and the active config file, the loop every file whose   *)
(* key is not mainFile                                                      *)
CompiledByInit(st) ==
  ({st.activeFilename, st.activeConfigFilename} \cap Keys(st.files))
    \cup (Keys(st.files) \ {st.mainFile})

(* init() up to await getViteConfig() *)
init ==
  /\ initPc = "constructed"
  /\ files' = IF Has(files, tsconfigFile) THEN files
              ELSE Put(files, tsconfigFile, File(tsconfigFile, TsconfigCode, FALSE))
  /\ IF Has(files, viteConfigFile)
     THEN /\ initPc' = "awaiting"
          /\ jobs' = Append(jobs, [kind |-> "init", code |-> Get(files, viteConfigFile).code,
                                    hung |-> FALSE])
     ELSE /\ initPc' = "failed"
          /\ UNCHANGED jobs
  /\ Done("init", [filename |-> tsconfigFile], ~Has(files, viteConfigFile), FALSE)
  /\ UNCHANGED <<activeFilename, activeConfigFilename, mainFile, errors, vueVersion,
                 importMap, preset, viteConfig, compiles, url, nops>>

(* init() from await getViteConfig() on: the remaining watchers are        *)
(* installed, the effect runs once, the rest of the files are compiled     *)
initResume(i) ==
  /\ i \in 1..Len(jobs)
  /\ jobs[i].kind = "init"
  /\ ~jobs[i].hung
  /\ jobs' = RemoveAt(jobs, i)
  /\ IF Evaluates(jobs[i].code)
     THEN /\ viteConfig' = {jobs[i].code}
          /\ initPc' = "ready"
          /\ errors' = <<>>
          /\ compiles' = compiles (+) effectCompiles(Cur)
                           (+) compileAll(Del(files, mainFile), "append")
     ELSE /\ initPc' = "failed"
          /\ UNCHANGED <<viteConfig, errors, compiles>>
  /\ Done("initResume", [code |-> jobs[i].code], ~Evaluates(jobs[i].code),
          IF Evaluates(jobs[i].code) THEN CompiledByInit(Cur) ELSE {})
  /\ UNCHANGED <<files, activeFilename, activeConfigFilename, mainFile, vueVersion,
                 importMap, preset, url, nops>>

----------------------------------------------------------------------------
InitStore == useStore(DefaultPreset, FALSE, Garbage)

Init ==
  /\ files = InitStore.files
  /\ activeFilename = InitStore.activeFilename
  /\ activeConfigFilename = InitStore.activeConfigFilename
  /\ mainFile = InitStore.mainFile
  /\ errors = InitStore.errors
  /\ vueVersion = InitStore.vueVersion
  /\ importMap = InitStore.importMap
  /\ preset = InitStore.preset
  /\ initPc = "constructed"
  /\ viteConfig = {}
  /\ jobs = <<>>
  /\ compiles = EmptyBag
  /\ url = serialize(InitStore)
  /\ nops = 0
  /\ last = [op |-> "useStore", arg |-> [preset |-> DefaultPreset], threw |-> FALSE,
             ret |-> FALSE, pre |-> InitStore, pass |-> <<>>]

(* what the host may invoke *)
HostOp ==
  \/ \E f \in ActiveInputs : setActive(f)
  \/ \E in \in AddInputs : addFile(in)
  \/ \E f \in DeleteInputs, ok \in BOOLEAN : deleteFile(f, ok)
  \/ \E o \in RenameOld, n \in RenameNew : renameFile(o, n)
  \/ \E e \in EditInputs : edit(e[1], e[2])
  \/ getImportMap
  \/ getTsConfig
  \/ serializeCall
  \/ \E str \in {url, Garbage} : deserializeCall(str)
  \/ \E v \in Versions : setVueVersion(v)
  \/ \E p \in Presets : setPreset(p)
  \/ \E in \in SetFilesInputs : setFiles(in)

(* The store as constructed and driven through its operations, init() not  *)
(* called: no watcher is installed.                                        *)
Next ==
  \/ HostOp
  \/ \E i \in 1..Len(jobs) : setFilesAwait(i)
  \/ \E i \in 1..Len(jobs) : setFilesDone(i)
  \/ \E c \in BagToSet(compiles) : settle(c)

Spec == Init /\ [][Next]_vars

(* The store as the Repl component drives it: init() is called at setup,   *)
(* before any operation, and installs the watchers; the host then changes  *)
(* the preset and the version, and the user adds, selects, renames and     *)
(* edits files.                                                            *)
InitHostOp ==
  \/ \E p \in Presets : setPreset(p)
  \/ \E v \in Versions : setVueVersion(v)
  \/ \E in \in AddInputs : addFile(in)
  \/ \E f \in ActiveInputs : setActive(f)
  \/ \E o \in RenameOld, n \in RenameNew : renameFile(o, n)
  \/ \E e \in EditInputs : edit(e[1], e[2])

NextInit ==
  \/ init
  \/ \E i \in 1..Len(jobs) : initResume(i)
  \/ initPc # "constructed" /\ nops < MaxInitOps /\ InitHostOp
  \/ \E i \in 1..Len(jobs) : setFilesAwait(i)
  \/ \E i \in 1..Len(jobs) : setFilesDone(i)
  \/ \E i \in 1..Len(jobs) : viteConfigDone(i)
  \/ \E c \in BagToSet(compiles) : settle(c)

SpecInit == Init /\ [][NextInit]_vars

(* A transform or evaluate call that never settles.  The call a suspended   *)
(* async function awaits never resumes it; a compile whose promise the      *)
(* store only attached a .then to never runs that handler.  At most one     *)
(* call hangs in a behaviour.                                               *)
NoneHung ==
  /\ \A i \in 1..Len(jobs) : ~jobs[i].hung
  /\ \A c \in BagToSet(compiles) : c.mode # "hung"

hangAwaited(i) ==
  /\ i \in 1..Len(jobs)
  /\ NoneHung
  /\ jobs' = [jobs EXCEPT ![i].hung = TRUE]
  /\ Done("hang", [kind |-> jobs[i].kind], FALSE, FALSE)
  /\ UNCHANGED <<files, activeFilename, activeConfigFilename, mainFile, errors, vueVersion,
                 importMap, preset, initPc, viteConfig, compiles, url, nops>>

hangCompile(c) ==
  /\ BagIn(c, compiles)
  /\ NoneHung
  /\ compiles' = (compiles (-) SetToBag({c})) (+) SetToBag({[c EXCEPT !.mode = "hung"]})
  /\ Done("hang", [kind |-> "compile"], FALSE, FALSE)
  /\ UNCHANGED <<files, activeFilename, activeConfigFilename, mainFile, errors, vueVersion,
                 importMap, preset, initPc, viteConfig, jobs, url, nops>>

(* The store as the Repl component drives it, with a transform or evaluate *)
(* call that may hang.  Every call that is not hung settles eventually     *)
(* (the event loop runs every continuation that is ready); the host may    *)
(* stop invoking operations at any time.                                    *)
NextHang ==
  \/ NextInit
  \/ \E i \in 1..Len(jobs) : hangAwaited(i)
  \/ \E c \in BagToSet(compiles) : hangCompile(c)

SpecHang ==
  /\ Init
  /\ [][NextHang]_vars
  /\ WF_vars(\E i \in 1..Len(jobs) : initResume(i))
  /\ WF_vars(\E i \in 1..Len(jobs) : setFilesAwait(i))
  /\ WF_vars(\E i \in 1..Len(jobs) : setFilesDone(i))
  /\ WF_vars(\E i \in 1..Len(jobs) : viteConfigDone(i))
  /\ WF_vars(\E c \in BagToSet(compiles) : settle(c))

(* The store driven by its owner before the Repl component is set up: the  *)
(* owner adds, selects, renames and deletes files, then init() runs once    *)
(* and its compiles settle.                                                 *)
BootHostOp ==
  \/ \E in \in AddInputs : addFile(in)
  \/ \E f \in ActiveInputs : setActive(f)
  \/ \E o \in RenameOld, n \in RenameNew : renameFile(o, n)
  \/ \E f \in DeleteInputs, ok \in BOOLEAN : deleteFile(f, ok)

NextBoot ==
  \/ initPc = "constructed" /\ BootHostOp
  \/ init
  \/ \E i \in 1..Len(jobs) : initResume(i)
  \/ \E c \in BagToSet(compiles) : settle(c)

SpecBoot == Init /\ [][NextBoot]_vars

----------------------------------------------------------------------------
(* Properties.  last.pre is the store before the operation last.op, the     *)
(* variables are the store after it.                                        *)
Pre == last.pre

RenameRefused ==
  /\ last.op = "renameFile"
  /\ \/ ~Has(Pre.files, last.arg.oldFilename)
     \/ last.arg.newFilename = EmptyName
     \/ last.arg.oldFilename = last.arg.newFilename

C3_DeleteActiveFallsBackToMain ==
  (last.op = "deleteFile" /\ last.arg.confirmed) =>
    /\ ~Has(files, last.arg.filename)
    /\ Keys(files) = Keys(Pre.files) \ {last.arg.filename}
    /\ Pre.activeFilename = last.arg.filename => activeFilename = Pre.mainFile
    /\ Pre.activeFilename # last.arg.filename => activeFilename = Pre.activeFilename
    /\ mainFile = Pre.mainFile

(* the active file, which was not the main file, has been deleted *)
C3_Witness ==
  /\ last.op = "deleteFile"
  /\ last.arg.confirmed
  /\ Has(Pre.files, last.arg.filename)
  /\ Pre.activeFilename = last.arg.filename
  /\ Pre.mainFile # last.arg.filename
  /\ activeFilename = mainFile

(* C4: round trip.  In every reachable state that serialize accepts, the    *)
(* fresh store built from serialize() has the same filenames (the           *)
(* import-map file, which serialize may omit, aside), every file with the   *)
(* same code and hidden flag, the same mainFile and the same version.       *)
Fresh == useStore(preset, TRUE, serialize(Cur))
Portable == Keys(files) \ {importMapFile}

C4_RoundTrip ==
  ~serializeThrows(Cur) =>
    /\ Keys(Fresh.files) \ {importMapFile} = Portable
    /\ \A f \in Portable \cap Keys(Fresh.files) :
         /\ Get(Fresh.files, f).code = Get(files, f).code
         /\ Get(Fresh.files, f).hidden = Get(files, f).hidden
    /\ Fresh.mainFile = mainFile
    /\ Fresh.vueVersion = vueVersion

(* C5: serialize() keeps of the import-map file exactly the imports that    *)
(* the built-in map does not give with the same value, drops an empty       *)
(* imports and an empty scopes object, and omits the import-map entry when  *)
(* nothing remains.                                                         *)
Serialized ==
  /\ last.op = "serialize"
  /\ ~last.threw
  /\ Has(files, importMapFile)
SavedEntries == Decoded(last.ret).entries
SavedMap == JsonVal(SavedEntries[ExpIndex(SavedEntries, importMapFile)].code)
UserMap == JsonVal(Get(files, importMapFile).code)
TrueOverrides == UserMap.imports \ BuiltinFor(vueVersion).imports

C5_SerializeKeepsTrueOverrides ==
  Serialized =>
    IF TrueOverrides = {} /\ UserMap.scopes = {} /\ ~UserMap.other
    THEN importMapFile \notin ExpKeys(SavedEntries)
    ELSE /\ importMapFile \in ExpKeys(SavedEntries)
         /\ SavedMap.imports = TrueOverrides
         /\ SavedMap.hasImports = (TrueOverrides # {})
         /\ SavedMap.hasScopes = (UserMap.scopes # {})
         /\ SavedMap.scopes = UserMap.scopes

(* the user map { vue: built-in value, foo: B } has been serialized: foo    *)
(* is kept, vue is not                                                      *)
C5_Witness ==
  /\ Serialized
  /\ UserMap.imports = {<<"vue", URL_A>>, <<"foo", URL_B>>}
  /\ BuiltinFor(vueVersion).imports = {<<"vue", URL_A>>}
  /\ importMapFile \in ExpKeys(SavedEntries)
  /\ SavedMap.imports = {<<"foo", URL_B>>}

(* C6: when the setFiles call that the preset watcher started for preset p *)
(* completes, the file mapping holds exactly p's markup entry, main source  *)
(* and build-config, the macro-config and settings files and a regenerated  *)
(* import-map file (nothing of the previous set survives), mainFile is the  *)
(* preset's main source file, and that file is the active file.             *)
PresetSwitched ==
  /\ last.op = "setFilesDone"
  /\ last.arg.from = "watch(preset)"
GeneratedNames ==
  {indexHtmlFile, welcomeFile, viteConfigFile, tsMacroConfigFile, tsconfigFile, importMapFile}

C6_PresetSwitchReplacesFiles ==
  PresetSwitched =>
    /\ Keys(files) = GeneratedNames
    /\ Len(files) = Cardinality(GeneratedNames)
    /\ \A i \in 1..Len(files) : files[i].filename = files[i].key
    /\ Get(files, indexHtmlFile).code = Template(last.arg.preset).indexHtml
    /\ Get(files, welcomeFile).code = Template(last.arg.preset).welcome
    /\ Get(files, viteConfigFile).code = Template(last.arg.preset).viteConfig
    /\ Get(files, tsMacroConfigFile).code = tsMacroConfigCode
    /\ Get(files, tsconfigFile).code = TsconfigCode
    /\ IsJson(Get(files, importMapFile).code)
    /\ JsonVal(Get(files, importMapFile).code).imports = BuiltinFor(vueVersion).imports
    /\ mainFile = welcomeFile
    /\ activeFilename = welcomeFile

(* the switch to the react preset has completed in a store that held a     *)
(* file of the user's and had another file active                          *)
C6_Witness ==
  /\ PresetSwitched
  /\ last.arg.preset = "react"
  /\ preset = "react"
  /\ Keys(Pre.files) \ GeneratedNames # {}
  /\ Pre.activeFilename # welcomeFile
  /\ Get(files, welcomeFile).code = Template("react").welcome

(* C7: getImportMap() on an import-map file whose content does not parse    *)
(* does not throw, returns the empty map and leaves exactly one diagnostic, *)
(* which names the import-map file.  (An empty content is read as '{}'.)    *)
Malformed(code) == ~IsJson(code) /\ code # EmptyText
GotMalformedImportMap ==
  /\ last.op = "getImportMap"
  /\ Has(Pre.files, importMapFile)
  /\ Malformed(Get(Pre.files, importMapFile).code)

C8_MainFileExists == Has(files, mainFile)

(* C9: activeFilename is the key of an existing file that is not reserved,  *)
(* or it equals mainFile, in every reachable state.                         *)
C9_ActiveFileValid ==
  \/ Has(files, activeFilename) /\ activeFilename \notin Reserved
  \/ activeFilename = mainFile

(* C10: slot separation.  activeConfigFilename is always a reserved name,   *)
(* activeFilename never is; setActive with a reserved name changes only     *)
(* activeConfigFilename, with any other name only activeFilename.           *)
C10_SlotSeparation ==
  /\ activeConfigFilename \in Reserved
  /\ activeFilename \notin Reserved
  /\ last.op = "setActive" =>
       IF last.arg.filename \in Reserved
       THEN activeConfigFilename = last.arg.filename /\ activeFilename = Pre.activeFilename
       ELSE activeFilename = last.arg.filename
              /\ activeConfigFilename = Pre.activeConfigFilename

(* C11: a renameFile(old, new) that passes its checks leaves the key        *)
(* sequence of the file mapping as it was with old replaced by new at the   *)
(* same position: the same number of files, every other entry untouched,   *)
(* the entry under new being the same file with filename = new; mainFile    *)
(* and activeFilename each become new exactly when they were old.           *)
Renamed ==
  /\ last.op = "renameFile"
  /\ last.ret \in {"renamed", "renamed active"}

C11_RenameKeepsOrder ==
  Renamed =>
    LET old == last.arg.oldFilename
        new == last.arg.newFilename
        i == IndexOf(Pre.files, old)
    IN /\ Len(files) = Len(Pre.files)
       /\ KeySeq(files) = [KeySeq(Pre.files) EXCEPT ![i] = new]
       /\ \A k \in 1..Len(files) : k # i => files[k] = Pre.files[k]
       /\ files[i] = [Pre.files[i] EXCEPT !.key = new, !.filename = new]
       /\ mainFile = (IF Pre.mainFile = old THEN new ELSE Pre.mainFile)
       /\ activeFilename = (IF Pre.activeFilename = old THEN new ELSE Pre.activeFilename)
       /\ (mainFile = new) <=> (Pre.mainFile = old)
       /\ (activeFilename = new) <=> (Pre.activeFilename = old)

(* C12: deserialize(state) with a state that cannot be decoded does not     *)
(* throw, alerts, and leaves the file mapping equal to exactly the default  *)
(* file set (markup entry hidden, main source, build-config, macro-config), *)
(* whatever the mapping held before.                                        *)
DecodeFailed ==
  /\ last.op = "deserialize"
  /\ deserializeFails(last.arg.str)
DefaultNames == {indexHtmlFile, welcomeFile, viteConfigFile, tsMacroConfigFile}

C12_DeserializeFailureResets ==
  DecodeFailed =>
    /\ ~last.threw
    /\ last.ret.alerted
    /\ Keys(files) = DefaultNames
    /\ Get(files, indexHtmlFile) = File(indexHtmlFile, Template(preset).indexHtml, TRUE)
    /\ Get(files, welcomeFile) = File(welcomeFile, Template(preset).welcome, FALSE)
    /\ Get(files, viteConfigFile) = File(viteConfigFile, Template(preset).viteConfig, FALSE)
    /\ Get(files, tsMacroConfigFile) = File(tsMacroConfigFile, tsMacroConfigCode, FALSE)

(* C13: user entries override built-in entries.  Wherever the merged map is *)
(* written to the import-map file (construction, setFiles, the built-in     *)
(* import map watcher), every specifier that both the import-map file and   *)
(* the built-in map define has, in the file's new content, the value the    *)
(* file gave it (with the sfc URL rewritten as setImportMap does).          *)
InBoth(user, builtin) == KeysOf(user.imports) \cap KeysOf(builtin.imports)
UserWins(user, builtin, fs) ==
  /\ Has(fs, importMapFile)
  /\ IsJson(Get(fs, importMapFile).code)
  /\ \A k \in InBoth(user, builtin) :
       Lookup(JsonVal(Get(fs, importMapFile).code).imports, k) = fixURL(Lookup(user.imports, k))
BuiltinWatcherRan ==
  /\ last.op = "setVueVersion"
  /\ initPc = "ready"

C13_UserEntriesOverrideBuiltin ==
  /\ last.op = "useStore" => UserWins(EmptyObj, BuiltinFor(vueVersion), files)
  /\ last.op = "setFilesDone" =>
       UserWins(getImportMapRet([Pre EXCEPT !.files = last.arg.files]),
                BuiltinFor(vueVersion), files)
  /\ BuiltinWatcherRan => UserWins(getImportMapRet(Pre), BuiltinFor(vueVersion), files)

(* C14: in every quiescent state (no call suspended, no compile in flight)  *)
(* the importMap field is the merge of the built-in map and the map parsed  *)
(* from the import-map file, and the import-map file's content is the       *)
(* serialization of that same map.                                          *)
Quiescent ==
  /\ jobs = <<>>
  /\ compiles = EmptyBag
  /\ initPc \in {"constructed", "ready"}
Merged == FixImports(mergeImportMap(BuiltinFor(vueVersion), getImportMapRet(Cur)))

C14_ImportMapReapplied ==
  Quiescent =>
    /\ importMap = Merged
    /\ Has(files, importMapFile)
    /\ Get(files, importMapFile).code = Json(Merged, "pretty")

(* C15: overlapping compiles are last-write-wins by settle order.  When a   *)
(* compile whose result replaces the error list settles, the error list is  *)
(* exactly its diagnostics, whatever settled before it and whenever it was  *)
(* started; in particular the result of a compile of older content, if it   *)
(* settles last, is the final error list.                                   *)
ReplacingSettled ==
  /\ last.op = "settle"
  /\ last.arg.mode = "replace"

C15_LastSettledWins == ReplacingSettled => errors = last.arg.errs

(* every compile has settled, the active file's current content is clean,   *)
(* and the error list holds the diagnostics of the compile started on its   *)
(* older, faulty content, which settled after the compile of the current    *)
(* content                                                                  *)
C15_Witness ==
  /\ ReplacingSettled
  /\ initPc = "ready"
  /\ compiles = EmptyBag
  /\ jobs = <<>>
  /\ activeFilename = welcomeFile
  /\ Has(files, welcomeFile)
  /\ Diagnostics(Get(files, welcomeFile)) = <<>>
  /\ errors = <<CompileError(welcomeFile)>>

(* C16: a run of the active-file compile watcher compiles the active file   *)
(* and the active config file, and once both have settled the error list    *)
(* is the concatenation of the diagnostics of both, in either order.        *)
ActiveDiagnostics == Diagnostics(FileOrNone(files, activeFilename))
ConfigDiagnostics == Diagnostics(FileOrNone(files, activeConfigFilename))

C16_WatcherConcatenatesBoth ==
  (Quiescent /\ initPc = "ready" /\ ReplacingSettled) =>
    \/ errors = ActiveDiagnostics \o ConfigDiagnostics
    \/ errors = ConfigDiagnostics \o ActiveDiagnostics

(* C17: when the build-config file's content changes, the configuration is  *)
(* evaluated first: the full recompile starts only once viteConfig holds    *)
(* the new value.  Then every file is compiled and, once every compile has  *)
(* settled (no operation having intervened), the error list contains the    *)
(* diagnostics of every file of the pass.                                   *)
Elems(q) == {q[i] : i \in 1..Len(q)}

C17_FullRecompileAppendsAll ==
  /\ (last.op = "viteConfigDone" /\ ~last.threw) => viteConfig = {last.arg.code}
  /\ compiles = EmptyBag => Elems(last.pass) \subseteq Elems(errors)

(* C18: init() compiles every file of the mapping: its loop every file but  *)
(* mainFile, the active-file compile watcher mainFile, whatever the active  *)
(* file and the main file are when init() is called.                        *)
InitRan ==
  /\ last.op = "initResume"
  /\ ~last.threw

C18_InitCompilesEveryFile == InitRan => Keys(files) \subseteq last.ret

(* C20: every operation that parses the import-map file or the settings     *)
(* file (getImportMap, getTsConfig, serialize, applyBuiltinImportMap)       *)
(* handles malformed JSON locally: it returns normally, uses an empty value *)
(* in place of the parsed one, and leaves a single diagnostic in the error  *)
(* list.                                                                    *)
MalformedIn(fs, n) == Has(fs, n) /\ Malformed(Get(fs, n).code)

C20_ParseFailuresHandledLocally ==
  /\ (last.op = "getImportMap" /\ MalformedIn(Pre.files, importMapFile)) =>
       ~last.threw /\ last.ret = EmptyObj /\ Len(errors) = 1
  /\ (last.op = "getTsConfig" /\ MalformedIn(Pre.files, tsconfigFile)) =>
       ~last.threw /\ last.ret = EmptyObj /\ Len(errors) = 1
  /\ (last.op = "serialize" /\ MalformedIn(Pre.files, importMapFile)) =>
       ~last.threw /\ Len(errors) = 1
  /\ (last.op = "setFilesDone" /\ MalformedIn(last.arg.files, importMapFile)) =>
       ~last.threw /\ Len(errors) = 1

(* C19: a transform or evaluate call that never settles blocks nothing but  *)
(* its own result: every asynchronous operation of the store (init, a      *)
(* preset switch / setFiles, the build-config full recompile) still         *)
(* completes, so eventually no call is left suspended.                      *)
C19_HungBlocksNothing == <>[](jobs = <<>>)

(* C21: when the preset selector changes twice in quick succession, or      *)
(* files are added or renamed while a switch is still compiling, then once  *)
(* the last pending replacement has completed the file mapping is the set   *)
(* generated for the currently selected preset, whatever the order in which *)
(* the replacements complete: an earlier one never overwrites a later one.  *)
NoSetFilesPending == \A i \in 1..Len(jobs) : jobs[i].kind # "setFiles"

C21_LatestPresetWins ==
  (PresetSwitched /\ NoSetFilesPending) =>
    /\ Keys(files) = GeneratedNames
    /\ Get(files, indexHtmlFile).code = Template(preset).indexHtml
    /\ Get(files, welcomeFile).code = Template(preset).welcome
    /\ Get(files, viteConfigFile).code = Template(preset).viteConfig
    /\ mainFile = welcomeFile
====
